---- MODULE Spec2Model ----
(***************************************************************************)
(* The Leeway drift model of src/models/leeway.py (Python 2, numpy):       *)
(*   Leeway.__init__     loads the object property table from a text file, *)
(*   Leeway.seed_leeway  seeds a batch of leeway particles,                 *)
(*   Leeway.update       advances the ensemble by one time step.            *)
(* The base classes OpenDriftSimulation and LagrangianArray (readers,      *)
(* seed_point, deactivate_elements, the driver that samples the            *)
(* environment) are not part of the source file; the little of them the    *)
(* model needs is taken from the specification and marked as such.         *)
(*                                                                         *)
(* Exceptions are modelled as Python raises them: an operation ends at the *)
(* first statement that raises, keeping the assignments made before it.    *)
(***************************************************************************)
EXTENDS Integers, Sequences, FiniteSets, TLC

\* ------------------------------------------------------------------ bounds
MaxRecords   == 2    \* records in the property file
MaxReaders   == 1    \* readers added to the simulation
MaxParticles == 1    \* particles in the ensemble
MaxUpdates   == 3    \* update() calls made on one particle
MaxNumber    == 2    \* largest `number` passed to seed_leeway

\* --------------------------------------------------------------- constants
RIGHT == 0
LEFT  == 1

\* None, and a time of t whole seconds (a datetime): None is the empty tuple.
None    == <<>>
At(t)   == << t >>
\* A local name that was never assigned.
Unbound == "unbound"

\* The keys of status_colors: the particle statuses.
Statuses == {"initial", "active", "missing_data", "stranded", "evaporated", "dispersed"}

\* ------------------------------------------------------------------ inputs
\* Two object types a property file may hold; the nine coefficients are in
\* the order DWSLOPE DWOFFSET DWSTD CWRSLOPE CWROFFSET CWRSTD CWLSLOPE
\* CWLOFFSET CWLSTD.  The second has a negative downwind slope and no spread.
Catalogue == { [key |-> "PIW-1",  arr |-> <<1, 7, 8, 1, 4, 9, 1, 4, 9>>],
               [key |-> "RAFT-1", arr |-> <<-1, 0, 0, 2, 3, 0, 2, 3, 0>>] }

KeyLine(k)  == [kind |-> "key",   key |-> k,  arr |-> <<>>]
DescLine    == [kind |-> "desc",  key |-> "", arr |-> <<>>]
CoefLine(a) == [kind |-> "coef",  key |-> "", arr |-> a]
BlankLine   == [kind |-> "blank", key |-> "", arr |-> <<>>]

RecordLines(r) == << KeyLine(r.key), DescLine, CoefLine(r.arr) >>

RECURSIVE Flatten(_)
Flatten(recs) ==
    IF recs = <<>> THEN <<>> ELSE RecordLines(Head(recs)) \o Flatten(Tail(recs))

RecordSeqs == UNION { [1..n -> Catalogue] : n \in 0..MaxRecords }

\* How the records of a well-formed file end: at end of input, with a blank
\* key line, or with a blank key line followed by further records.
Endings == {"eof", "blank", "blank+more"}

Tail_of(e) ==
    CASE e = "eof"        -> <<>>
      [] e = "blank"      -> << BlankLine >>
      [] e = "blank+more" -> << BlankLine >> \o
                             RecordLines([key |-> "PIW-1", arr |-> <<1, 7, 8, 1, 4, 9, 1, 4, 9>>])

FileText(recs, e) == Flatten(recs) \o Tail_of(e)

\* time_step.total_seconds() of the run, in whole seconds.
TimeSteps == {900, 3600}

\* Times are whole numbers; time may be omitted (None).
Times  == {None, At(0)}
Times1 == {None, At(4)}
ReaderStarts == {None, At(7)}

VARIABLES
    pc,          \* "new" before __init__, "ready" after it, "failed" if it raised
    file,        \* the lines of the property file the constructor is given
    leewayprop,  \* self.leewayprop: sequence of [key, props], in dict order
    readers,     \* self.readers: sequence of readers, each with a start_time
    start_time,  \* self.start_time
    time_step,   \* self.time_step.total_seconds()
    elements,    \* self.elements: sequence of particles
    last         \* the last operation, its arguments and how it ended

vars == << pc, file, leewayprop, readers, start_time, time_step, elements, last >>


\* ------------------------------------------------------- Leeway.__init__
\* How an operation ended: exc = "none" for a normal return, else the
\* exception's class and the source line that raised it.
Returned       == [exc |-> "none", line |-> 0]
Raised(e, l)   == [exc |-> e, line |-> l]

\* not objproptxt[i*3].strip(): a line that is empty or all whitespace.
IsBlank(ln) == ln.kind = "blank"

\* The dictionary of one record (props); OBJNUMBER is the loop index.
Props(i, arr) ==
    [ OBJNUMBER |-> i,
      DWSLOPE   |-> arr[1], DWOFFSET  |-> arr[2], DWSTD  |-> arr[3],
      CWRSLOPE  |-> arr[4], CWROFFSET |-> arr[5], CWRSTD |-> arr[6],
      CWLSLOPE  |-> arr[7], CWLOFFSET |-> arr[8], CWLSTD |-> arr[9] ]

\* self.leewayprop[objKey] = props on an OrderedDict: a new key is appended,
\* a key already present keeps its position and gets the new value.
DictSet(d, k, v) ==
    IF \E j \in 1..Len(d) : d[j].key = k
    THEN [ j \in 1..Len(d) |-> IF d[j].key = k THEN [key |-> k, props |-> v] ELSE d[j] ]
    ELSE Append(d, [key |-> k, props |-> v])

\* self.leewayprop.values(): the values in dictionary order (a Python 2 list).
DictValues(d) == [ j \in 1..Len(d) |-> d[j].props ]

\* self.leewayprop[k]
DictGet(d, k) == (CHOOSE j \in 1..Len(d) : d[j].key = k)

\* The loop  for i in xrange(len(objproptxt)//3+1)  from iteration i on, with
\* the dictionary d built so far.  objproptxt[j] is txt[j+1]; an index past
\* the end of the list raises IndexError.
RECURSIVE LoadFrom(_, _, _)
LoadFrom(txt, i, d) ==
    IF i > Len(txt) \div 3
    THEN [ end |-> Returned, table |-> d ]
    ELSE IF i * 3 + 1 > Len(txt)
    THEN [ end |-> Raised("IndexError", 91), table |-> d ]
    ELSE IF IsBlank(txt[i * 3 + 1])
    THEN [ end |-> Returned, table |-> d ]
    ELSE IF i * 3 + 3 > Len(txt)
    THEN [ end |-> Raised("IndexError", 96), table |-> d ]
    ELSE IF Len(txt[i * 3 + 3].arr) < 9
    THEN [ end |-> Raised("IndexError", 99), table |-> d ]
    ELSE LoadFrom(txt, i + 1,
                  DictSet(d, txt[i * 3 + 1].key, Props(i, txt[i * 3 + 3].arr)))

LoadTable(txt) == LoadFrom(txt, 0, <<>>)


\* Leeway.__init__(d): read the file into the local objproptxt, close it,
\* build self.leewayprop.  When the loop raises, the constructor raises and
\* no simulation object exists.  The text read is a local of the constructor
\* and is gone when it ends; `last` keeps it as the call's argument.
Construct ==
    /\ pc = "new"
    /\ LET r == LoadTable(file) IN
       /\ pc' = IF r.end.exc = "none" THEN "ready" ELSE "failed"
       /\ leewayprop' = IF r.end.exc = "none" THEN r.table ELSE <<>>
       /\ last' = [ op |-> "__init__", end |-> r.end,
                    args |-> [ objproptxt |-> file ], before |-> <<>> ]
    /\ file' = <<>>
    /\ UNCHANGED << readers, start_time, time_step, elements >>

\* ------------------------------------------------------------ LeewayObj
\* A new particle: the defaults of LeewayObj.variables, with the status and
\* position of the base LagrangianArray.  `calls` is a history field: the
\* update() calls made since the particle was seeded.
NewParticle(o) ==
    [ status |-> "initial", lon |-> 0, orientation |-> o,
      downwindSlope |-> 1, crosswindSlope |-> 1,
      downwindOffset |-> 0, crosswindOffset |-> 0,
      downwindEps |-> 0, crosswindEps |-> 0,
      age_seconds |-> 0, calls |-> 0 ]

\* --------------------------------------------------- Leeway.seed_leeway
\* seq[i] for a Python list of length n: indices -n..n-1 are valid, negative
\* ones count from the end.
ValidIndex(i, n) == -n <= i /\ i < n

\* The reader the loop of lines 125-128 leaves in firstReader: the first one
\* whose start_time is not None, as a one-element sequence; the name stays
\* unbound (the empty sequence) when there is none.
FirstReader(rs) ==
    IF \E j \in 1..Len(rs) : rs[j].start_time # None
    THEN << rs[CHOOSE j \in 1..Len(rs) :
                 /\ rs[j].start_time # None
                 /\ \A k \in 1..(j - 1) : rs[k].start_time = None] >>
    ELSE << >>

\* seed_leeway(lon, lat, number, time, time1, objectType) on a simulation with
\* readers rs, start time st and property table d.  The result is how the
\* call ended, self.start_time after it, and the release times and particles
\* it handed to seed_point.  In code order:
\*   122-134  time is None: the try block completes (iterating the readers
\*            raises nothing), then line 132 evaluates `logging`, a name the
\*            module neither imports nor defines: NameError.  self.start_time
\*            is not assigned.
\*   136      otherwise self.start_time = time.
\*   157      self.leewayprop.values()[objectType]: IndexError when objectType
\*            is no index of the table.
\*   160      np.zeros(number): ValueError for a negative number.
\*   162-166  number >= 1: the first evaluation of the while condition reads
\*            `dwslo`, a name never assigned: NameError.
\*   173      number = 0: the loop body never runs; the subscript assignment
\*            to `crosswindSlope`, a name never assigned, raises NameError.
\* No path reaches the seed_point call of line 196.
seed_leeway(rs, st, d, number, time, time1, objectType) ==
    IF time = None
    THEN [ end |-> Raised("NameError", 132), start_time |-> st, times |-> <<>>, batch |-> <<>> ]
    ELSE IF ~ ValidIndex(objectType, Len(d))
    THEN [ end |-> Raised("IndexError", 157), start_time |-> time, times |-> <<>>, batch |-> <<>> ]
    ELSE IF number < 0
    THEN [ end |-> Raised("ValueError", 160), start_time |-> time, times |-> <<>>, batch |-> <<>> ]
    ELSE IF number >= 1
    THEN [ end |-> Raised("NameError", 166), start_time |-> time, times |-> <<>>, batch |-> <<>> ]
    ELSE [ end |-> Raised("NameError", 173), start_time |-> time, times |-> <<>>, batch |-> <<>> ]

SeedLeeway ==
    /\ pc = "ready"
    /\ \E number \in -1..MaxNumber, time \in Times, time1 \in Times1,
          objectType \in -1..MaxRecords :
         LET r == seed_leeway(readers, start_time, leewayprop,
                              number, time, time1, objectType) IN
         /\ start_time' = r.start_time
         /\ elements' = elements \o r.batch
         /\ last' = [ op |-> "seed_leeway", end |-> r.end,
                      args |-> [ number |-> number, time |-> time, time1 |-> time1,
                                 objectType |-> objectType,
                                 times |-> r.times,
                                 batch |-> Len(r.batch) ],
                      before |-> elements ]
    /\ UNCHANGED << pc, file, leewayprop, readers, time_step >>

\* ----------------------------------------------------------- Leeway.update
\* A variant of AddAge that ages the active particles only.
AddAge_ActiveOnly(elems, d) ==
    [ i \in 1..Len(elems) |->
        IF elems[i].status = "active"
        THEN [ elems[i] EXCEPT !.age_seconds = @ + d ]
        ELSE elems[i] ]

\* self.elements.age_seconds += self.time_step.total_seconds(): an in-place
\* addition over the whole array, whatever the status.  Ages and time steps
\* are whole seconds, added exactly.
AddAge(elems, d) ==
    [ i \in 1..Len(elems) |->
        [ elems[i] EXCEPT !.age_seconds = @ + d ] ]

\* np.sqrt(x_wind**2 + y_wind**2), for the winds the model draws.
Sqrt(n) == CHOOSE r \in 0..n : r * r = n
WindSpeed(w) == Sqrt(w[1] * w[1] + w[2] * w[2])

\* update() with time step d and environment sample env.  Line 206 adds the
\* time step to every age; lines 208-211 compute windspeed and winddir; line
\* 214 reads self.elements.epsilon, which is no variable of LeewayObj:
\* AttributeError.  Nothing after line 214 runs: no position is updated and
\* no element is deactivated.
update(elems, d, env) ==
    [ end |-> Raised("AttributeError", 214),
      elements |-> AddAge(elems, d),
      windspeed |-> WindSpeed(env.wind),
      cwl_leeway |-> Unbound ]

Winds == { <<0, 0>>, <<3, 4>> }

Update ==
    /\ pc = "ready"
    /\ \A i \in 1..Len(elements) : elements[i].calls < MaxUpdates
    /\ \E mask \in [1..Len(elements) -> {0, 1}], wind \in Winds :
         LET r == update(elements, time_step,
                         [ land_binary_mask |-> mask, wind |-> wind ]) IN
         /\ elements' = [ i \in 1..Len(elements) |->
                            [ r.elements[i] EXCEPT !.calls = @ + 1 ] ]
         /\ last' = [ op |-> "update", end |-> r.end,
                      args |-> [ land_binary_mask |-> mask,
                                 windspeed |-> r.windspeed,
                                 cwl_leeway |-> r.cwl_leeway ],
                      before |-> elements ]
    /\ UNCHANGED << pc, file, leewayprop, readers, start_time, time_step >>

\* ------------------------------------------ the base class and the driver
\* add_reader: one more environment reader, with or without a start time.
AddReader ==
    /\ pc = "ready"
    /\ Len(readers) < MaxReaders
    /\ \E t \in ReaderStarts :
         readers' = Append(readers, [ start_time |-> t ])
    /\ last' = [ op |-> "add_reader", end |-> Returned, args |-> <<>>, before |-> <<>> ]
    /\ UNCHANGED << pc, file, leewayprop, start_time, time_step, elements >>

\* seed_point called directly: one particle with the given orientation and
\* the default leeway properties.
SeedPoint ==
    /\ pc = "ready"
    /\ Len(elements) < MaxParticles
    /\ \E o \in {RIGHT, LEFT} :
         elements' = Append(elements, NewParticle(o))
    /\ last' = [ op |-> "seed_point", end |-> Returned, args |-> <<>>, before |-> <<>> ]
    /\ UNCHANGED << pc, file, leewayprop, readers, start_time, time_step >>

\* The driver's first successful environment sample: initial -> active.
Activate ==
    /\ pc = "ready"
    /\ \E i \in 1..Len(elements) :
         /\ elements[i].status = "initial"
         /\ elements' = [ elements EXCEPT ![i].status = "active" ]
    /\ last' = [ op |-> "activate", end |-> Returned, args |-> <<>>, before |-> <<>> ]
    /\ UNCHANGED << pc, file, leewayprop, readers, start_time, time_step >>

\* deactivate_elements(indices, reason) called from outside update(): an
\* active particle takes one of the other statuses.
Deactivate ==
    /\ pc = "ready"
    /\ \E i \in 1..Len(elements), reason \in Statuses \ {"initial", "active"} :
         /\ elements[i].status = "active"
         /\ elements' = [ elements EXCEPT ![i].status = reason ]
    /\ last' = [ op |-> "deactivate_elements", end |-> Returned, args |-> <<>>, before |-> <<>> ]
    /\ UNCHANGED << pc, file, leewayprop, readers, start_time, time_step >>

\* ------------------------------------------------------ the specification
Init ==
    /\ pc = "new"
    /\ \E recs \in RecordSeqs, e \in Endings : file = FileText(recs, e)
    /\ leewayprop = <<>>
    /\ readers = <<>>
    /\ start_time = None
    /\ time_step \in TimeSteps
    /\ elements = <<>>
    /\ last = [ op |-> "none", end |-> Returned, args |-> <<>>, before |-> <<>> ]

Next ==
    \/ Construct
    \/ SeedLeeway
    \/ Update
    \/ AddReader
    \/ SeedPoint
    \/ Activate
    \/ Deactivate

Spec == Init /\ [][Next]_vars


\* The update() claims are also checked from a simulation constructed from a
\* standard file, with the operations that read or write the ensemble only:
\* seed_leeway and add_reader neither read nor change self.elements.
StandardFile ==
    FileText(<< [key |-> "PIW-1",  arr |-> <<1, 7, 8, 1, 4, 9, 1, 4, 9>>],
                [key |-> "RAFT-1", arr |-> <<-1, 0, 0, 2, 3, 0, 2, 3, 0>>] >>, "blank")

InitReady ==
    /\ pc = "ready"
    /\ file = <<>>
    /\ leewayprop = LoadTable(StandardFile).table
    /\ readers = <<>>
    /\ start_time = None
    /\ time_step \in TimeSteps
    /\ elements = <<>>
    /\ last = [ op |-> "__init__", end |-> Returned,
                args |-> [ objproptxt |-> StandardFile ], before |-> <<>> ]

NextUpdate ==
    \/ Update
    \/ SeedPoint
    \/ Activate
    \/ Deactivate

SpecUpdate == InitReady /\ [][NextUpdate]_vars


\* ================================================================ claims
\* What the claims say of a call, read from `last`.
SeedCall   == last.op = "seed_leeway"
UpdateCall == last.op = "update"

\* A seeding request the specification accepts: an explicit time, at least
\* one particle, an object type of the table.
ValidSeedCall ==
    /\ SeedCall
    /\ last.args.time # None
    /\ last.args.number >= 1
    /\ ValidIndex(last.args.objectType, Len(leewayprop))

\* The particles a seeding call added: those after the ones present before.
Batch == [ i \in 1..(Len(elements) - Len(last.before)) |-> elements[Len(last.before) + i] ]

\* orientation_sign of the specification: RIGHT -> +1, LEFT -> -1.
OrientationSign(o) == IF o = RIGHT THEN 1 ELSE -1

\* The release times of the specification: from T to T1 in count - 1 equal
\* steps; T alone for one particle or when time1 is omitted.
ReleaseTimes(count, T, T1) ==
    [ i \in 1..count |->
        IF count = 1 \/ T1 = None THEN T
        ELSE At(T[1] + ((i - 1) * (T1[1] - T[1])) \div (count - 1)) ]

\* The records of a well-formed file before its first blank key line.
RECURSIVE RecordsBeforeBlank(_)
RecordsBeforeBlank(txt) ==
    IF Len(txt) < 3 \/ IsBlank(txt[1]) THEN <<>>
    ELSE << [key |-> txt[1].key, arr |-> txt[3].arr] >>
         \o RecordsBeforeBlank(SubSeq(txt, 4, Len(txt)))

DistinctKeys(recs) ==
    \A a, b \in 1..Len(recs) : recs[a].key = recs[b].key => a = b

\* ---- C1
\* C1 (as stated): after an update() call, every particle that was active at
\* the start of the call and whose land_binary_mask sample is 1 is stranded,
\* and its position is the one the leeway displacement left it at (the code
\* makes no leeway displacement, so that is its position before the call).
C1_StrandedOnLand ==
    UpdateCall =>
        \A i \in 1..Len(last.before) :
            (last.before[i].status = "active" /\ last.args.land_binary_mask[i] = 1)
            => /\ elements[i].status = "stranded"
               /\ elements[i].lon = last.before[i].lon

\* ---- C2
\* C2: every particle, whatever its status, has age_seconds = n * d after
\* the n update() calls made since it was seeded, d being the time step:
\* each call adds exactly d to the age of every particle.
C2_AgeIsCallsTimesStep ==
    \A i \in 1..Len(elements) :
        elements[i].age_seconds = elements[i].calls * time_step

\* C2 witness: a stranded particle that has aged through two update() calls.
C2_Witness ==
    \E i \in 1..Len(elements) :
        /\ elements[i].status = "stranded"
        /\ elements[i].calls = 2
        /\ elements[i].age_seconds = 2 * time_step
        /\ UpdateCall

\* ---- C3
\* C3 (as stated): a valid seeding call returns, and every particle it seeded
\* has downwindSlope + downwindEps/20 >= 0 (times 20: 20*slope + eps >= 0).
C3_DownwindSlopeNonNegative ==
    ValidSeedCall =>
        /\ last.end.exc = "none"
        /\ Len(Batch) = last.args.number
        /\ \A i \in 1..Len(Batch) :
              20 * Batch[i].downwindSlope + Batch[i].downwindEps >= 0

\* ---- C4
\* C4 (as stated): a valid seeding call ends by returning an ensemble or by
\* raising CoefficientSamplingError, for every object type of the table.
C4_SamplingReturnsOrFails ==
    ValidSeedCall => last.end.exc \in {"none", "CoefficientSamplingError"}

\* ---- C5
\* C5 (as stated): a valid seeding call of count particles from T to T1
\* returns, and hands seed_point the release times T + i*(T1-T)/(count-1);
\* T alone for count = 1 or when time1 is omitted.
C5_ReleaseTimesInterpolated ==
    ValidSeedCall =>
        /\ last.end.exc = "none"
        /\ last.args.times =
              ReleaseTimes(last.args.number, last.args.time, last.args.time1)

\* ---- C6
\* C6 (as stated): a seeding call without a time succeeds with the start time
\* of the first reader that has one; with no such reader it raises the
\* missing-time error of line 130 and seeds no particle.
C6_TimeFromReader ==
    (SeedCall /\ last.args.time = None) =>
        IF FirstReader(readers) # <<>>
        THEN (last.args.number >= 1 /\ ValidIndex(last.args.objectType, Len(leewayprop)))
             => /\ last.end.exc = "none"
                /\ start_time = FirstReader(readers)[1].start_time
        ELSE /\ last.end = Raised("ValueError", 130)
             /\ elements = last.before

\* ---- C7
\* C7 (as stated): a valid seeding call returns a batch of `number` particles
\* in which the particle at 0-based index i is RIGHT iff i is even and LEFT
\* iff i is odd.
C7_OrientationAlternates ==
    ValidSeedCall =>
        /\ last.end.exc = "none"
        /\ Len(Batch) = last.args.number
        /\ \A i \in 1..Len(Batch) :
              Batch[i].orientation = IF (i - 1) % 2 = 0 THEN RIGHT ELSE LEFT

\* ---- C8
\* C8 (as stated): update() computes, for every active particle, the
\* crosswind leeway speed orientation_sign * (crosswindSlope * windspeed +
\* crosswindOffset), +1 for RIGHT and -1 for LEFT.
C8_CrosswindSigned ==
    UpdateCall =>
        \A i \in 1..Len(last.before) :
            last.before[i].status = "active"
            => /\ last.args.cwl_leeway # Unbound
               /\ last.args.cwl_leeway[i] =
                     OrientationSign(elements[i].orientation)
                     * (elements[i].crosswindSlope * last.args.windspeed
                        + elements[i].crosswindOffset)

\* ---- C9
\* C9 (as stated): loading a well-formed file of records with distinct keys,
\* ended by a blank key line or by the end of input, raises nothing and gives
\* the records before the first blank key line, in order, the k-th with
\* OBJNUMBER k, the k-th value being the value of the k-th key.
C9_TableLoaded ==
    (last.op = "__init__" /\ DistinctKeys(RecordsBeforeBlank(last.args.objproptxt))) =>
        LET recs == RecordsBeforeBlank(last.args.objproptxt) IN
        /\ last.end.exc = "none"
        /\ Len(leewayprop) = Len(recs)
        /\ \A k \in 1..Len(recs) :
              /\ leewayprop[k].key = recs[k].key
              /\ leewayprop[k].props = Props(k - 1, recs[k].arr)
              /\ DictValues(leewayprop)[k] = leewayprop[DictGet(leewayprop, recs[k].key)].props

\* ---- C10
\* C10 (as stated): a seeding call with number < 1 raises
\* InvalidSeedingRequestError and adds no particle.
C10_CountBelowOneRejected ==
    (SeedCall /\ last.args.number < 1) =>
        /\ last.end.exc = "InvalidSeedingRequestError"
        /\ elements = last.before

====
